---- MODULE Spec2Model ----
(***************************************************************************)
(* The Robonomics liability runtime module                                 *)
(* (robonomics/frame/liability/src/lib.rs): the storage items LatestIndex, *)
(* LiabilityOf, ReportOf and IsFinalized and the two dispatchable calls     *)
(* create and finalize.  The submodules traits, signed, technics and       *)
(* economics are not part of the source at hand; the Agreement capability  *)
(* (new, verify, on_start, on_finish, encode, decode) is modelled from its *)
(* contract in the specification, sections 4.1 to 4.3.                      *)
(***************************************************************************)
EXTENDS Integers, Sequences, FiniteSets, TLC

(* Number of agreements the model lets create store. *)
MaxIndex == 2

(* The keys of the storage maps that the model follows: 0, the assigned     *)
(* indices and one index never assigned.                                    *)
Index == 0..(MaxIndex + 1)

(* u64::MAX, scaled to the keys the model follows: the largest value        *)
(* LatestIndex can hold, one above the last index the model lets create     *)
(* assign, so that no create of Spec reaches it.                            *)
U64Max == MaxIndex + 1

(***************************************************************************)
(* Values                                                                  *)
(***************************************************************************)

(* AccountId<T>: the party identities; the callers of the model name A as    *)
(* promisee and B as promisor, and either account may have made a proof.    *)
Accounts == {"A", "B"}

Promisees == {"A"}

Promisors == {"B"}

(* TechnicalParam<T>: the technical specification, a byte string. *)
TechnicalParams == {<<1>>, <<2, 3>>}

(* EconomicalParam<T>: the economic terms; the unit value of the no-cost    *)
(* policy, which encodes to no bytes.                                       *)
EconomicalParams == {<<>>}

(* TechnicalReport<T>: the completion report, a byte string. *)
TechnicalReports == {<<5>>, <<6, 7>>}

(* T::Origin as ensure_none sees it. *)
Origins == {"None", "Signed"}

(* The results of a dispatchable call. *)
Ok == "Ok"
BadOrigin == "bad origin"
AlreadyFinalized == "already finalized"
DecodeError == "unable decode liability params"
VerificationError == "VerificationError"
EconomicError == "EconomicError"
Panic == "panic"

(* decl_storage defaults: an absent key reads as the empty byte string, as  *)
(* false, as 0.                                                             *)
EmptyBytes == <<>>

(***************************************************************************)
(* The Agreement capability (specification 4.3)                            *)
(***************************************************************************)

(* Agreement::new: pure construction. *)
New(technics, economics, promisee, promisor) ==
    [technical |-> technics, economic |-> economics,
     promisee |-> promisee, promisor |-> promisor]

Liabilities ==
    {New(t, e, a, b) : t \in TechnicalParams, e \in EconomicalParams,
                       a \in Promisees, b \in Promisors}

(* The byte an account identity encodes to, and back. *)
AccountByte(a) == IF a = "A" THEN 65 ELSE 66

ByteAccount(b) == IF b = 65 THEN "A" ELSE "B"

AccountBytes == {AccountByte(a) : a \in Accounts}

(* Encoding of a byte string: its length, then its bytes. *)
EncodeBytes(v) == <<Len(v)>> \o v

(* Encode for the Agreement: technical, economic, promisee, promisor. *)
Encode(liability) ==
    EncodeBytes(liability.technical) \o liability.economic
        \o <<AccountByte(liability.promisee), AccountByte(liability.promisor)>>

(* Encode for a report. *)
EncodeReport(report) == EncodeBytes(report)

(* Decode for the Agreement: the value the bytes parse to, or DecodeFailed  *)
(* when the input ends early or a field does not parse.                    *)
DecodeFailed == [failed |-> TRUE]

Decode(bytes) ==
    IF Len(bytes) = 0 THEN DecodeFailed
    ELSE LET n == bytes[1] IN
         IF Len(bytes) < 1 + n + 2 THEN DecodeFailed
         ELSE IF bytes[n + 2] \notin AccountBytes \/ bytes[n + 3] \notin AccountBytes
              THEN DecodeFailed
              ELSE New(SubSeq(bytes, 2, n + 1), <<>>,
                       ByteAccount(bytes[n + 2]), ByteAccount(bytes[n + 3]))

(* ProofTarget: Promisee, Promisor, Report(report). *)
Promisee == <<"Promisee">>
Promisor == <<"Promisor">>
Report(report) == <<"Report", report>>

(* The claim a proof authorizes: this exact Agreement, or this exact report *)
(* tied to this Agreement.                                                  *)
ClaimOf(liability, target) ==
    IF target[1] = "Report"
    THEN EncodeReport(target[2]) \o Encode(liability)
    ELSE Encode(liability)

(* The party a target names; the promisor authorizes the report. *)
PartyOf(liability, target) ==
    IF target[1] = "Promisee" THEN liability.promisee ELSE liability.promisor

(* Agreement::verify: the proof is an authorization by the target's party   *)
(* over the target's claim.                                                *)
Verify(liability, target, proof) ==
    /\ proof.signer = PartyOf(liability, target)
    /\ proof.msg = ClaimOf(liability, target)

(* Proof<T>: the proofs a caller submits to create and to finalize: made by *)
(* either account over the claim of any agreement.                          *)
CreateProofs ==
    [signer : Accounts, msg : {Encode(l) : l \in Liabilities}]

FinalizeProofs(report) ==
    [signer : Accounts, msg : {ClaimOf(l, Report(report)) : l \in Liabilities}]

(***************************************************************************)
(* State                                                                   *)
(***************************************************************************)
VARIABLES
    LatestIndex,    \* LatestIndex: u64
    LiabilityOf,    \* LiabilityOf: map u64 => Vec<u8>
    ReportOf,       \* ReportOf: map u64 => Vec<u8>
    IsFinalized,    \* IsFinalized: map u64 => bool
    events,         \* the events deposited so far
    call,           \* the dispatchable call made last, with its arguments
    result,         \* what that call returned
    trace           \* the Agreement methods that call invoked, in order

store == <<LatestIndex, LiabilityOf, ReportOf, IsFinalized>>

vars == <<LatestIndex, LiabilityOf, ReportOf, IsFinalized, events, call, result, trace>>

NoCall == [op |-> "none"]

(* Genesis: every storage item at its default. *)
Init ==
    /\ LatestIndex = 0
    /\ LiabilityOf = [i \in Index |-> EmptyBytes]
    /\ ReportOf = [i \in Index |-> EmptyBytes]
    /\ IsFinalized = [i \in Index |-> FALSE]
    /\ events = <<>>
    /\ call = NoCall
    /\ result = Ok
    /\ trace = <<>>

(* One invocation of an Agreement method, as the trace records it. *)
Step(fn, self, arg, ok) == [fn |-> fn, self |-> self, arg |-> arg, ok |-> ok]

(* The origin check letting every origin through. *)
EnsureNoneAny(origin) == origin \in Origins

(* ensure_none(origin) *)
EnsureNone(origin) == origin = "None"

(***************************************************************************)
(* create                                                                  *)
(***************************************************************************)

(* let liability = T::Liability::new(technics, economics, promisee, promisor) *)
CreateLiability(technics, economics, promisee, promisor) ==
    New(technics, economics, promisee, promisor)

(* The Agreement methods create invokes: verify(Promisee), verify(Promisor) *)
(* and on_start, each only when the one before returned Ok.                 *)
CreateTrace(origin, liability, promisee_proof, promisor_proof, startOk) ==
    LET v1 == Verify(liability, Promisee, promisee_proof)
        v2 == Verify(liability, Promisor, promisor_proof)
        s1 == Step("verify", liability, Promisee, v1)
        s2 == Step("verify", liability, Promisor, v2)
        s3 == Step("on_start", liability, <<>>, startOk)
    IN  IF ~EnsureNone(origin) THEN <<>>
        ELSE IF ~v1 THEN <<s1>>
        ELSE IF ~v2 THEN <<s1, s2>>
        ELSE <<s1, s2, s3>>

(* create as it would be with the promisor's proof left unexamined. *)
CreateResultPromiseeOnly(origin, liability, promisee_proof, promisor_proof, startOk) ==
    IF ~EnsureNone(origin) THEN BadOrigin
    ELSE IF ~Verify(liability, Promisee, promisee_proof) THEN VerificationError
    ELSE IF ~startOk THEN EconomicError
    ELSE Ok

(* create as it would be with the result of on_start dropped. *)
CreateResultIgnoreStart(origin, liability, promisee_proof, promisor_proof, startOk) ==
    IF ~EnsureNone(origin) THEN BadOrigin
    ELSE IF ~Verify(liability, Promisee, promisee_proof) THEN VerificationError
    ELSE IF ~Verify(liability, Promisor, promisor_proof) THEN VerificationError
    ELSE Ok

(* The result of create: the first `?` that fails returns its error. *)
CreateResult(origin, liability, promisee_proof, promisor_proof, startOk) ==
    IF ~EnsureNone(origin) THEN BadOrigin
    ELSE IF ~Verify(liability, Promisee, promisee_proof) THEN VerificationError
    ELSE IF ~Verify(liability, Promisor, promisor_proof) THEN VerificationError
    ELSE IF ~startOk THEN EconomicError
    ELSE Ok

(* The index computation with the increment left out. *)
NextIndexStuck(latest) == latest

(* let latest_index = <LatestIndex>::get() + 1: `+` on u64, which wraps     *)
(* around in a build without overflow checks.                               *)
NextIndex(latest) == (latest + 1) % (U64Max + 1)

(* The same `+` in a build with overflow checks panics instead of wrapping. *)
AddPanics(latest, overflow_checks) == overflow_checks /\ latest = U64Max

(* The insert made under the index read from storage, not the new one. *)
CreateInsertAtLatest(map, latest_index, liability) ==
    [map EXCEPT ![latest_index - 1] = Encode(liability)]

(* <LiabilityOf>::insert(latest_index, Vec::from(params)) *)
CreateInsert(map, latest_index, liability) ==
    [map EXCEPT ![latest_index] = Encode(liability)]

(* The call itself; overflow_checks is the build's setting. *)
CreateCall(origin, technics, economics, promisee, promisee_proof, promisor, promisor_proof, startOk, overflow_checks) ==
    LET liability == CreateLiability(technics, economics, promisee, promisor)
        passed == CreateResult(origin, liability, promisee_proof, promisor_proof, startOk)
        res == IF passed = Ok /\ AddPanics(LatestIndex, overflow_checks) THEN Panic ELSE passed
        latest_index == NextIndex(LatestIndex)
    IN  /\ call' = [op |-> "create", origin |-> origin, technics |-> technics,
                    economics |-> economics, promisee |-> promisee,
                    promisee_proof |-> promisee_proof, promisor |-> promisor,
                    promisor_proof |-> promisor_proof]
        /\ result' = res
        /\ trace' = CreateTrace(origin, liability, promisee_proof, promisor_proof, startOk)
        /\ IF res = Ok
           THEN /\ LiabilityOf' = CreateInsert(LiabilityOf, latest_index, liability)
                /\ LatestIndex' = latest_index
           ELSE UNCHANGED <<LiabilityOf, LatestIndex>>
        /\ UNCHANGED <<ReportOf, IsFinalized, events>>

(* create, as long as fewer than MaxIndex agreements are stored. *)
Create(origin, technics, economics, promisee, promisee_proof, promisor, promisor_proof, startOk) ==
    /\ CreateCall(origin, technics, economics, promisee, promisee_proof, promisor, promisor_proof, startOk, FALSE)
    /\ result' = Ok => LatestIndex < MaxIndex

(***************************************************************************)
(* finalize                                                                *)
(***************************************************************************)

(* The read with a missing agreement taken for a default Agreement. *)
StoredLiabilityOrDefault(index) ==
    IF LiabilityOf[index] = EmptyBytes
    THEN New(<<>>, <<>>, "A", "B")
    ELSE Decode(LiabilityOf[index])

(* The read with an index above LatestIndex taken for LatestIndex. *)
StoredLiabilityClamped(index) ==
    Decode(LiabilityOf[IF index > LatestIndex THEN LatestIndex ELSE index])

(* T::Liability::decode(&mut &<LiabilityOf>::get(index)[..]) *)
StoredLiability(index) == Decode(LiabilityOf[index])

(* The Agreement methods finalize invokes: verify(Report(report)) and       *)
(* on_finish(true) on the decoded agreement.                                *)
FinalizeTrace(origin, index, report, proof, finishOk) ==
    LET liability == StoredLiability(index)
        v == Verify(liability, Report(report), proof)
        s1 == Step("verify", liability, Report(report), v)
        s2 == Step("on_finish", liability, <<TRUE>>, finishOk)
    IN  IF ~EnsureNone(origin) THEN <<>>
        ELSE IF IsFinalized[index] THEN <<>>
        ELSE IF liability = DecodeFailed THEN <<>>
        ELSE IF ~v THEN <<s1>>
        ELSE <<s1, s2>>

(* finalize as it would be with the report proof left unexamined. *)
FinalizeResultNoVerify(origin, index, report, proof, finishOk) ==
    LET liability == Decode(LiabilityOf[index])
    IN  IF ~EnsureNone(origin) THEN BadOrigin
        ELSE IF IsFinalized[index] THEN AlreadyFinalized
        ELSE IF liability = DecodeFailed THEN DecodeError
        ELSE IF ~finishOk THEN EconomicError
        ELSE Ok

(* The result of finalize: the first check that fails returns its error. *)
FinalizeResult(origin, index, report, proof, finishOk) ==
    LET liability == StoredLiability(index)
    IN  IF ~EnsureNone(origin) THEN BadOrigin
        ELSE IF IsFinalized[index] THEN AlreadyFinalized
        ELSE IF liability = DecodeFailed THEN DecodeError
        ELSE IF ~Verify(liability, Report(report), proof) THEN VerificationError
        ELSE IF ~finishOk THEN EconomicError
        ELSE Ok

(* The insert placed before on_finish, so that it is made even when        *)
(* on_finish fails.                                                         *)
FinalizeInsertBeforeFinish(map, res, index, report) ==
    IF res \in {Ok, EconomicError}
    THEN [map EXCEPT ![index] = EncodeReport(report)]
    ELSE map

(* finalize as it would be with the flag set once the report is stored. *)
FinalizeFlagSet(map, res, index) ==
    IF res = Ok THEN [map EXCEPT ![index] = TRUE] ELSE map

(* What finalize does to IsFinalized: it reads the flag and never writes it. *)
FinalizeFlag(map, res, index) == map

(* <ReportOf>::insert(index, Vec::from(bytes)), reached when nothing failed. *)
FinalizeInsert(map, res, index, report) ==
    IF res = Ok THEN [map EXCEPT ![index] = EncodeReport(report)] ELSE map

Finalize(origin, index, report, proof, finishOk) ==
    LET res == FinalizeResult(origin, index, report, proof, finishOk)
    IN  /\ call' = [op |-> "finalize", origin |-> origin, index |-> index,
                    report |-> report, proof |-> proof]
        /\ result' = res
        /\ trace' = FinalizeTrace(origin, index, report, proof, finishOk)
        /\ ReportOf' = FinalizeInsert(ReportOf, res, index, report)
        /\ IsFinalized' = FinalizeFlag(IsFinalized, res, index)
        /\ UNCHANGED <<LatestIndex, LiabilityOf, events>>

(***************************************************************************)
(* The runtime delivers the calls one at a time.                            *)
(***************************************************************************)
(* What on_start may return to a create call: Ok or an error when the call  *)
(* gets as far as invoking it; otherwise it is not invoked and nothing is   *)
(* drawn.                                                                   *)
StartOutcomes(origin, liability, promisee_proof, promisor_proof) ==
    IF CreateResult(origin, liability, promisee_proof, promisor_proof, TRUE) = Ok
    THEN BOOLEAN ELSE {TRUE}

(* What on_finish may return to a finalize call, likewise. *)
FinishOutcomes(origin, index, report, proof) ==
    IF FinalizeResult(origin, index, report, proof, TRUE) = Ok
    THEN BOOLEAN ELSE {TRUE}

Next ==
    \/ \E origin \in Origins, technics \in TechnicalParams,
          economics \in EconomicalParams, promisee \in Promisees,
          promisee_proof \in CreateProofs, promisor \in Promisors,
          promisor_proof \in CreateProofs :
            \E startOk \in StartOutcomes(origin,
                    CreateLiability(technics, economics, promisee, promisor),
                    promisee_proof, promisor_proof) :
                Create(origin, technics, economics, promisee, promisee_proof,
                       promisor, promisor_proof, startOk)
    \/ \E origin \in Origins, index \in Index, report \in TechnicalReports :
            \E proof \in FinalizeProofs(report) :
                \E finishOk \in FinishOutcomes(origin, index, report, proof) :
                    Finalize(origin, index, report, proof, finishOk)

Spec == Init /\ [][Next]_vars

(* The create calls alone, with no limit on their number, in either build:  *)
(* LatestIndex goes all the way up to U64Max and past it.                   *)
NextOverflow ==
    \E origin \in Origins, technics \in TechnicalParams,
       economics \in EconomicalParams, promisee \in Promisees,
       promisee_proof \in CreateProofs, promisor \in Promisors,
       promisor_proof \in CreateProofs, overflow_checks \in BOOLEAN :
         \E startOk \in StartOutcomes(origin,
                 CreateLiability(technics, economics, promisee, promisor),
                 promisee_proof, promisor_proof) :
             CreateCall(origin, technics, economics, promisee, promisee_proof,
                        promisor, promisor_proof, startOk, overflow_checks)

SpecOverflow == Init /\ [][NextOverflow]_vars

(***************************************************************************)
(* Properties                                                              *)
(***************************************************************************)

(* The Agreement the last create call was made for. *)
Submitted(c) == New(c.technics, c.economics, c.promisee, c.promisor)

StoredAt(map) == {i \in Index : map[i] # EmptyBytes}

(* C1: a successful create raises LatestIndex by exactly 1 and leaves at    *)
(* the new index the encoding of an Agreement whose technical, economic,    *)
(* promisee and promisor fields are the submitted values.                   *)
C1_CreateStoresAtNextIndex ==
    [][(call'.op = "create" /\ result' = Ok) =>
          /\ LatestIndex' = LatestIndex + 1
          /\ LiabilityOf'[LatestIndex'] = Encode(Submitted(call'))
          /\ LET stored == Decode(LiabilityOf'[LatestIndex'])
             IN  /\ stored # DecodeFailed
                 /\ stored.technical = call'.technics
                 /\ stored.economic = call'.economics
                 /\ stored.promisee = call'.promisee
                 /\ stored.promisor = call'.promisor]_vars

C1_Witness ==
    /\ call.op = "create"
    /\ result = Ok
    /\ LatestIndex = 2
    /\ call.technics = <<2, 3>>
    /\ Decode(LiabilityOf[2]).technical = <<2, 3>>
    /\ Decode(LiabilityOf[1]).technical = <<1>>

(* C2: a create call (made with the none origin, so that the proofs are     *)
(* examined) whose promisee proof or promisor proof fails verification      *)
(* returns the verification error and leaves LatestIndex, LiabilityOf,      *)
(* ReportOf and IsFinalized as they were.                                   *)
C2_BadProofRejected ==
    [][(/\ call'.op = "create"
        /\ EnsureNone(call'.origin)
        /\ \/ ~Verify(Submitted(call'), Promisee, call'.promisee_proof)
           \/ ~Verify(Submitted(call'), Promisor, call'.promisor_proof)) =>
          /\ result' = VerificationError
          /\ UNCHANGED store]_vars

C2_Witness ==
    /\ call.op = "create"
    /\ EnsureNone(call.origin)
    /\ Verify(Submitted(call), Promisee, call.promisee_proof)
    /\ ~Verify(Submitted(call), Promisor, call.promisor_proof)
    /\ call.promisor_proof.signer = "A"
    /\ result = VerificationError
    /\ LatestIndex = 1

(* C3: a finalize call that returns an error leaves LatestIndex,            *)
(* LiabilityOf, ReportOf and IsFinalized as they were.                      *)
C3_FailedFinalizeLeavesState ==
    [][(call'.op = "finalize" /\ result' # Ok) => UNCHANGED store]_vars

C3_Witness ==
    /\ call.op = "finalize"
    /\ result = EconomicError
    /\ ReportOf[call.index] # EmptyBytes
    /\ ReportOf[call.index] # EncodeReport(call.report)

(* C4: LiabilityOf changes only in a create call whose promisee proof and   *)
(* promisor proof both verified against the very Agreement that is stored,  *)
(* and ReportOf[i] changes only in a finalize call on i whose proof         *)
(* verified with target Report(report) against the Agreement stored at i;   *)
(* a call returns Ok only after these verifications; nothing is stored at   *)
(* genesis.                                                                 *)
C4_StoredOnlyWhenVerified ==
    /\ StoredAt(LiabilityOf) = {} /\ StoredAt(ReportOf) = {}
    /\ [][/\ \A i \in Index :
               /\ LiabilityOf'[i] # LiabilityOf[i] =>
                     /\ call'.op = "create" /\ result' = Ok
                     /\ LiabilityOf'[i] = Encode(Submitted(call'))
               /\ ReportOf'[i] # ReportOf[i] =>
                     /\ call'.op = "finalize" /\ result' = Ok
                     /\ call'.index = i
                     /\ ReportOf'[i] = EncodeReport(call'.report)
          /\ (call'.op = "create" /\ result' = Ok) =>
                /\ Verify(Submitted(call'), Promisee, call'.promisee_proof)
                /\ Verify(Submitted(call'), Promisor, call'.promisor_proof)
                /\ \E k \in 1..Len(trace') :
                      trace'[k] = Step("verify", Submitted(call'), Promisee, TRUE)
                /\ \E k \in 1..Len(trace') :
                      trace'[k] = Step("verify", Submitted(call'), Promisor, TRUE)
          /\ (call'.op = "finalize" /\ result' = Ok) =>
                /\ Decode(LiabilityOf[call'.index]) # DecodeFailed
                /\ Verify(Decode(LiabilityOf[call'.index]), Report(call'.report),
                          call'.proof)
                /\ \E k \in 1..Len(trace') :
                      trace'[k] = Step("verify", Decode(LiabilityOf[call'.index]),
                                       Report(call'.report), TRUE)]_vars

C4_Witness ==
    /\ call.op = "finalize"
    /\ result = Ok
    /\ call.index = 2
    /\ ReportOf[2] = EncodeReport(call.report)
    /\ ReportOf[1] # EmptyBytes
    /\ LiabilityOf[1] # LiabilityOf[2]
    /\ trace[1] = Step("verify", Decode(LiabilityOf[2]), Report(call.report), TRUE)

(* C5: a finalize call (made with the none origin) on index 0 or on an      *)
(* index above LatestIndex finds no stored agreement, returns the decode    *)
(* error, because the empty byte string does not decode to an Agreement,    *)
(* and modifies no storage.                                                 *)
C5_MissingAgreementRejected ==
    [][(/\ call'.op = "finalize"
        /\ EnsureNone(call'.origin)
        /\ (call'.index = 0 \/ call'.index > LatestIndex)) =>
          /\ LiabilityOf[call'.index] = EmptyBytes
          /\ Decode(LiabilityOf[call'.index]) = DecodeFailed
          /\ result' = DecodeError
          /\ trace' = <<>>
          /\ UNCHANGED store]_vars

C5_Witness ==
    /\ call.op = "finalize"
    /\ EnsureNone(call.origin)
    /\ call.index = LatestIndex + 1
    /\ LatestIndex = 1
    /\ ReportOf[1] # EmptyBytes
    /\ result = DecodeError

(* C6: a successful create deposits NewLiability(next_index), a successful  *)
(* finalize deposits NewReport(index), a failed call deposits nothing.      *)
C6_EventsDeposited ==
    [][/\ (call'.op = "create" /\ result' = Ok) =>
             events' = Append(events, <<"NewLiability", LatestIndex'>>)
       /\ (call'.op = "finalize" /\ result' = Ok) =>
             events' = Append(events, <<"NewReport", call'.index>>)
       /\ result' # Ok => events' = events]_vars

(* C7: once a report is stored at an index, no later call changes or        *)
(* removes the bytes stored there.                                          *)
C7_ReportsAppendOnly ==
    [][\A i \in Index :
          ReportOf[i] # EmptyBytes => ReportOf'[i] = ReportOf[i]]_vars

(* C8: once an Agreement is stored at an index, no later call changes or    *)
(* removes the bytes stored there.                                          *)
C8_AgreementsAppendOnly ==
    [][\A i \in Index :
          LiabilityOf[i] # EmptyBytes => LiabilityOf'[i] = LiabilityOf[i]]_vars

C8_Witness ==
    /\ LatestIndex = 2
    /\ LiabilityOf[1] # EmptyBytes
    /\ LiabilityOf[2] # EmptyBytes
    /\ LiabilityOf[1] # LiabilityOf[2]
    /\ call.op = "finalize"
    /\ call.index = 1
    /\ result = Ok

(* C9: LatestIndex is 0 at genesis; in every state the indices that hold an *)
(* Agreement are exactly 1..LatestIndex; a failed create and any finalize   *)
(* leave LatestIndex alone and a successful create stores at LatestIndex+1. *)
C9_DenseIndices ==
    /\ LatestIndex = 0
    /\ [](StoredAt(LiabilityOf) = 1..LatestIndex)
    /\ [][/\ (call'.op = "finalize" \/ result' # Ok) => LatestIndex' = LatestIndex
          /\ (call'.op = "create" /\ result' = Ok) =>
                /\ LatestIndex' = LatestIndex + 1
                /\ StoredAt(LiabilityOf') = StoredAt(LiabilityOf) \cup {LatestIndex + 1}]_vars

C9_Witness ==
    /\ LatestIndex = 2
    /\ StoredAt(LiabilityOf) = {1, 2}
    /\ call.op = "create"
    /\ result = VerificationError
    /\ StoredAt(ReportOf) = {1}

(* The invocations of on_finish that a call made. *)
FinishSteps(tr) == {k \in 1..Len(tr) : tr[k].fn = "on_finish"}

(* C11: on_finish is invoked at most once per index: a report is stored at  *)
(* an index only after on_finish was invoked for it and returned Ok, and a  *)
(* later finalize on that index does not invoke on_finish again.            *)
C11_FinishOncePerIndex ==
    [][(call'.op = "finalize" /\ FinishSteps(trace') # {}) =>
          ReportOf[call'.index] = EmptyBytes]_vars

(* C12: a create or finalize call made with an origin other than none       *)
(* returns the bad-origin error, invokes no Agreement method and leaves     *)
(* LatestIndex, LiabilityOf, ReportOf and IsFinalized as they were.         *)
C12_BadOriginRejected ==
    [][(call'.op \in {"create", "finalize"} /\ call'.origin # "None") =>
          /\ result' = BadOrigin
          /\ trace' = <<>>
          /\ UNCHANGED store]_vars

C12_Witness ==
    /\ call.op = "finalize"
    /\ call.origin = "Signed"
    /\ result = BadOrigin
    /\ call.index = 1
    /\ LatestIndex = 1
    /\ ReportOf[1] = EmptyBytes
    /\ Verify(Decode(LiabilityOf[1]), Report(call.report), call.proof)

(* C13: IsFinalized is false at every index in every state, and a finalize  *)
(* call with the none origin on a stored agreement with a valid report      *)
(* proof succeeds unless on_finish fails, also when a report is already     *)
(* stored at the index, and stores its report.                              *)
C13_NeverFinalized ==
    /\ [](\A i \in Index : ~IsFinalized[i])
    /\ [][(/\ call'.op = "finalize"
           /\ EnsureNone(call'.origin)
           /\ Decode(LiabilityOf[call'.index]) # DecodeFailed
           /\ Verify(Decode(LiabilityOf[call'.index]), Report(call'.report),
                     call'.proof)) =>
             /\ result' \in {Ok, EconomicError}
             /\ FinishSteps(trace') = {2}
             /\ result' = Ok <=> trace'[2].ok
             /\ result' = Ok => ReportOf'[call'.index] = EncodeReport(call'.report)]_vars

C13_Witness ==
    /\ call.op = "finalize"
    /\ result = Ok
    /\ call.index = 1
    /\ ReportOf[1] = EncodeReport(call.report)
    /\ ~IsFinalized[1]
    /\ LatestIndex = 2
    /\ ReportOf[2] # EmptyBytes

(* The invocations of on_start that a call made. *)
StartSteps(tr) == {k \in 1..Len(tr) : tr[k].fn = "on_start"}

(* C14: create invokes verify(Promisee), verify(Promisor), on_start in this *)
(* order and then writes: on_start is invoked exactly once when both proofs *)
(* verified and not at all otherwise, storage is written only after         *)
(* on_start returned Ok, and when on_start fails the call returns its error *)
(* with no agreement stored and LatestIndex unchanged.                      *)
C14_CreateOrder ==
    [][call'.op = "create" =>
          LET tr == trace'
              l == Submitted(call')
              both == /\ EnsureNone(call'.origin)
                      /\ Verify(l, Promisee, call'.promisee_proof)
                      /\ Verify(l, Promisor, call'.promisor_proof)
          IN  /\ Len(tr) >= 1 => tr[1].fn = "verify" /\ tr[1].arg = Promisee
              /\ Len(tr) >= 2 =>
                    /\ tr[1] = Step("verify", l, Promisee, TRUE)
                    /\ tr[2].fn = "verify" /\ tr[2].arg = Promisor
              /\ Len(tr) >= 3 =>
                    /\ tr[2] = Step("verify", l, Promisor, TRUE)
                    /\ tr[3].fn = "on_start" /\ tr[3].self = l
              /\ Len(tr) <= 3
              /\ StartSteps(tr) = IF both THEN {3} ELSE {}
              /\ (both /\ ~tr[3].ok) => result' = EconomicError /\ UNCHANGED store
              /\ ~UNCHANGED store => both /\ tr[3].ok]_vars

C14_Witness ==
    /\ call.op = "create"
    /\ result = EconomicError
    /\ Len(trace) = 3
    /\ trace[3] = Step("on_start", Submitted(call), <<>>, FALSE)
    /\ LatestIndex = 1
    /\ LiabilityOf[2] = EmptyBytes

(* C15: finalize checks the flag, decodes the agreement, invokes            *)
(* verify(Report(report)) and then on_finish(true), and then writes: no     *)
(* method is invoked unless the flag is false and the agreement decodes,    *)
(* on_finish is invoked only after the report proof verified against the    *)
(* decoded agreement and always with true, and the report is written only   *)
(* after on_finish returned Ok.                                             *)
C15_FinalizeOrder ==
    [][call'.op = "finalize" =>
          LET tr == trace'
              l == Decode(LiabilityOf[call'.index])
          IN  /\ Len(tr) >= 1 =>
                    /\ ~IsFinalized[call'.index]
                    /\ l # DecodeFailed
                    /\ tr[1].fn = "verify" /\ tr[1].self = l
                    /\ tr[1].arg = Report(call'.report)
                    /\ tr[1].ok = Verify(l, Report(call'.report), call'.proof)
              /\ Len(tr) >= 2 =>
                    /\ tr[1].ok
                    /\ tr[2].fn = "on_finish" /\ tr[2].self = l
                    /\ tr[2].arg = <<TRUE>>
              /\ Len(tr) <= 2
              /\ FinishSteps(tr) \subseteq {2}
              /\ (Len(tr) = 1 /\ ~tr[1].ok) => result' = VerificationError
              /\ (result' = Ok \/ ReportOf' # ReportOf) => Len(tr) = 2 /\ tr[2].ok]_vars

C15_Witness ==
    /\ call.op = "finalize"
    /\ result = Ok
    /\ call.index = 2
    /\ Len(trace) = 2
    /\ trace[1] = Step("verify", Decode(LiabilityOf[2]), Report(call.report), TRUE)
    /\ trace[2] = Step("on_finish", Decode(LiabilityOf[2]), <<TRUE>>, TRUE)
    /\ ReportOf[2] = EncodeReport(call.report)
    /\ ReportOf[1] = EmptyBytes

(* C16: LatestIndex never decreases, also in a create made when            *)
(* LatestIndex holds the largest u64 value: LatestIndex + 1 does not wrap   *)
(* around to 0.                                                             *)
C16_LatestIndexNeverDecreases ==
    [][LatestIndex' >= LatestIndex]_vars

(* C17: in every state a report is stored at an index only if an Agreement  *)
(* is stored at it, and the indices with a report lie in 1..LatestIndex.    *)
C17_ReportsHaveAgreements ==
    /\ StoredAt(ReportOf) \subseteq StoredAt(LiabilityOf)
    /\ StoredAt(ReportOf) \subseteq 1..LatestIndex

C17_Witness ==
    /\ LatestIndex = 2
    /\ StoredAt(ReportOf) = {2}
    /\ call.op = "finalize"
    /\ call.index = 3
    /\ EnsureNone(call.origin)
    /\ result = DecodeError

(* C18: a successful finalize(index, ..) changes ReportOf[index] and        *)
(* nothing else; a successful create changes LatestIndex and LiabilityOf at *)
(* the newly assigned index and nothing else.                               *)
C18_FrameConditions ==
    [][/\ (call'.op = "finalize" /\ result' = Ok) =>
             /\ UNCHANGED <<LatestIndex, LiabilityOf, IsFinalized>>
             /\ \A i \in Index \ {call'.index} : ReportOf'[i] = ReportOf[i]
       /\ (call'.op = "create" /\ result' = Ok) =>
             /\ UNCHANGED <<ReportOf, IsFinalized>>
             /\ \A i \in Index \ {LatestIndex'} : LiabilityOf'[i] = LiabilityOf[i]
             /\ \A i \in StoredAt(LiabilityOf) : LiabilityOf'[i] = LiabilityOf[i]]_vars

C18_Witness ==
    /\ call.op = "create"
    /\ result = Ok
    /\ LatestIndex = 2
    /\ ReportOf[1] # EmptyBytes
    /\ LiabilityOf[1] # LiabilityOf[2]

====
